---------------------------- MODULE Spec2Model ----------------------------
(***************************************************************************)
(* A model of templer.core.vars: the variable descriptors of a template    *)
(* (var and its subclasses), their construction and their validate         *)
(* methods, and the batch listing var.print_vars; and of the Runner of     *)
(* templer.core.control_script: its texts and its check of project names.  *)
(*                                                                         *)
(* Python values are records of one shape, [type, s, n]: `type` is the     *)
(* Python type's name, `s` the characters of a str (a sequence of          *)
(* one-character strings, so that strip, lower and split are computed),    *)
(* `n` the number of an int or bool, twice the number of a float, and the  *)
(* length of a list or dict (the code reads only their truth value and     *)
(* their type).  The str and int semantics are those of Python 3           *)
(* (compat.inPy3k); byte strings are left out.                             *)
(***************************************************************************)
EXTENDS Integers, Sequences, FiniteSets, TLC

VARIABLES
    objs,    \* the descriptors the program holds, by the slot that names each
    input,   \* the raw value the caller passes to validate
    last,    \* the most recent call: its receiver, argument, outcome and output
    Runner_texts,  \* the dict bound to the class attribute Runner.texts
    runners  \* the Runner instances the program holds, by the slot of each

vars == <<objs, input, last, Runner_texts, runners>>

----------------------------------------------------------------------------
(* Bounds of the model *)

\* generic text inputs: every string of at most MaxLen characters of Alphabet
MaxLen == 2
\* whitespace added on each side of a sample word
MaxPad == 1
\* integers used as non-text inputs and as bounds: -MaxInt..MaxInt
MaxInt == 2
\* integers passed as min and max: -MaxBound..MaxBound
MaxBound == 1
\* descriptors listed by one print_vars call
MaxVars == 2
\* indentation widths of print_vars
MaxIndent == 1
\* the numbers of dots a template asks for: 0..MaxDots
MaxDots == 2
\* Runner instances constructed after the import of control_script
MaxRunners == 2
\* items of a dict passed as `texts`
MaxTexts == 1

----------------------------------------------------------------------------
(* Python values *)

PyStr(s)   == [type |-> "str", s |-> s, n |-> 0]
PyInt(n)   == [type |-> "int", s |-> <<>>, n |-> n]
PyBool(b)  == [type |-> "bool", s |-> <<>>, n |-> IF b THEN 1 ELSE 0]
\* a float, given as its double: PyFloat(2) is 1.0, PyFloat(3) is 1.5
PyFloat(h) == [type |-> "float", s |-> <<>>, n |-> h]
None     == [type |-> "NoneType", s |-> <<>>, n |-> 0]
\* a list or a dict of n elements
PyList(n)  == [type |-> "list", s |-> <<>>, n |-> n]
PyDict(n)  == [type |-> "dict", s |-> <<>>, n |-> n]
\* the NoDefault marker object of templer.core.create
NoDefault == [type |-> "NoDefault", s |-> <<>>, n |-> 0]

True  == PyBool(TRUE)
False == PyBool(FALSE)

NumericTypes == {"int", "bool", "float"}

\* twice the number a numeric value stands for
Twice(v) == IF v.type = "float" THEN v.n ELSE 2 * v.n

\* a == b: numbers compare by value across int, bool and float
PyEq(a, b) ==
    IF a.type \in NumericTypes /\ b.type \in NumericTypes
    THEN Twice(a) = Twice(b)
    ELSE a.type = b.type /\ a.s = b.s /\ a.n = b.n

\* value in [l[1], l[2], ...]
PyIn(v, l) == \E k \in 1..Len(l) : PyEq(v, l[k])

\* bool(v), as `if v:` and `not v` compute it
Truthy(v) ==
    CASE v.type = "str" -> v.s # <<>>
      [] v.type \in NumericTypes -> v.n # 0
      [] v.type \in {"list", "dict"} -> v.n # 0
      [] v.type = "NoneType" -> FALSE
      [] OTHER -> TRUE

\* isinstance(v, compat.string_types)
IsString(v) == v.type = "str"

----------------------------------------------------------------------------
(* Python str methods, on sequences of characters *)

LowerLetters == <<"a","b","c","d","e","f","g","h","i","j","k","l","m",
                  "n","o","p","q","r","s","t","u","v","w","x","y","z">>
UpperLetters == <<"A","B","C","D","E","F","G","H","I","J","K","L","M",
                  "N","O","P","Q","R","S","T","U","V","W","X","Y","Z">>
Digits == <<"0","1","2","3","4","5","6","7","8","9">>
Whitespace == {" ", "\t", "\n", "\r", "\f"}

Range(f) == {f[k] : k \in DOMAIN f}

LowerChar(c) ==
    IF \E k \in 1..Len(UpperLetters) : UpperLetters[k] = c
    THEN LowerLetters[CHOOSE k \in 1..Len(UpperLetters) : UpperLetters[k] = c]
    ELSE c

UpperChar(c) ==
    IF \E k \in 1..Len(LowerLetters) : LowerLetters[k] = c
    THEN UpperLetters[CHOOSE k \in 1..Len(LowerLetters) : LowerLetters[k] = c]
    ELSE c

\* s.lower()
lower(s) == [k \in 1..Len(s) |-> LowerChar(s[k])]

RECURSIVE lstrip(_)
lstrip(s) ==
    IF s # <<>> /\ Head(s) \in Whitespace THEN lstrip(Tail(s)) ELSE s

RECURSIVE rstrip(_)
rstrip(s) ==
    IF s # <<>> /\ s[Len(s)] \in Whitespace
    THEN rstrip(SubSeq(s, 1, Len(s) - 1))
    ELSE s

\* s.strip()
strip(s) == rstrip(lstrip(s))

\* s.split("."): the segments between the dots, empty ones included
RECURSIVE split(_)
split(s) ==
    IF \E k \in 1..Len(s) : s[k] = "."
    THEN LET k == CHOOSE j \in 1..Len(s) :
                      s[j] = "." /\ \A i \in 1..(j - 1) : s[i] # "."
         IN  <<SubSeq(s, 1, k - 1)>> \o split(SubSeq(s, k + 1, Len(s)))
    ELSE <<s>>

\* sep.join(l)
RECURSIVE join(_, _)
join(sep, l) ==
    IF l = <<>> THEN <<>>
    ELSE IF Len(l) = 1 THEN l[1]
    ELSE l[1] \o sep \o join(sep, Tail(l))

\* ' ' * n
Spaces(n) == [k \in 1..n |-> " "]


----------------------------------------------------------------------------
(* What a call does: it returns a value or raises an exception.  A message *)
(* built with the % operator is kept as its format and its arguments.      *)

Return(v) ==
    [kind |-> "return", exc |-> "", value |-> v, fmt |-> "", args |-> <<>>]
Raise(e, f, a) ==
    [kind |-> "raise", exc |-> e, value |-> None, fmt |-> f, args |-> a]

Raised(o, e) == o.kind = "raise" /\ o.exc = e

----------------------------------------------------------------------------
(* int(value) *)

DigitValue(c) == (CHOOSE k \in 1..Len(Digits) : Digits[k] = c) - 1
IsDigit(c) == c \in Range(Digits)

RECURSIVE DigitsValue(_)
DigitsValue(s) ==
    IF s = <<>> THEN 0
    ELSE 10 * DigitsValue(SubSeq(s, 1, Len(s) - 1)) + DigitValue(s[Len(s)])

\* the digits of an integer literal: single underscores may separate digits
IsIntBody(b) ==
    /\ b # <<>>
    /\ \A k \in 1..Len(b) : IsDigit(b[k]) \/ b[k] = "_"
    /\ IsDigit(b[1]) /\ IsDigit(b[Len(b)])
    /\ \A k \in 1..(Len(b) - 1) : ~(b[k] = "_" /\ b[k + 1] = "_")

WithoutUnderscores(b) == SelectSeq(b, LAMBDA c : c # "_")

\* int(str): surrounding whitespace, an optional sign, base-10 digits
ParseInt(s) ==
    LET t    == strip(s)
        sign == t # <<>> /\ t[1] \in {"+", "-"}
        body == IF sign THEN Tail(t) ELSE t
        n    == DigitsValue(WithoutUnderscores(body))
    IN  IF IsIntBody(body)
        THEN Return(PyInt(IF sign /\ t[1] = "-" THEN -n ELSE n))
        ELSE Raise("ValueError", "invalid literal for int() with base 10: %r",
                   <<PyStr(s)>>)

\* a float truncates toward zero
Truncate(h) == IF h >= 0 THEN h \div 2 ELSE -((-h) \div 2)

int(value) ==
    CASE value.type = "str" -> ParseInt(value.s)
      [] value.type \in {"int", "bool"} -> Return(PyInt(value.n))
      [] value.type = "float" -> Return(PyInt(Truncate(value.n)))
      [] OTHER -> Raise("TypeError",
                        "int() argument must be a string or a number, not %s",
                        <<value>>)

----------------------------------------------------------------------------
(* class test(object): __slots__ = [name] *)

IsLetter(c) == c \in Range(LowerLetters) \cup Range(UpperLetters)

\* str.isidentifier, which type.__new__ asks of every slot name: keywords pass
IsIdentifier(name) ==
    /\ name # <<>>
    /\ IsLetter(name[1]) \/ name[1] = "_"
    /\ \A k \in 1..Len(name) : IsLetter(name[k]) \/ IsDigit(name[k]) \/ name[k] = "_"

\* the names the class statement has already put in the class body
ClassBodyNames ==
    { <<"_","_","m","o","d","u","l","e","_","_">>,
      <<"_","_","s","l","o","t","s","_","_">> }

SlotsClass(name) ==
    IF ~IsIdentifier(name)
    THEN Raise("TypeError", "__slots__ must be identifiers", <<>>)
    ELSE IF name \in ClassBodyNames
    THEN Raise("ValueError", "%r in __slots__ conflicts with class variable",
               <<PyStr(name)>>)
    ELSE Return(None)

----------------------------------------------------------------------------
(* The validate methods.  Each takes the descriptor and the raw value and  *)
(* gives what the call does.                                               *)

ValidationException == "ValidationException"

W_t     == <<"t">>
W_y     == <<"y">>
W_yes   == <<"y","e","s">>
W_true  == <<"t","r","u","e">>
W_f     == <<"f">>
W_n     == <<"n">>
W_no    == <<"n","o">>
W_false == <<"f","a","l","s","e">>
W_on    == <<"o","n">>
W_off   == <<"o","f","f">>

\* the mutant of BooleanVar.validate: the type of the result is not checked
BooleanVar_validate_unchecked(self, value) ==
    LET v1 == IF IsString(value) THEN PyStr(lower(strip(value.s))) ELSE value
    IN  IF PyIn(v1, <<PyStr(W_t), PyStr(W_y), PyStr(W_yes),
                      PyStr(W_true), PyInt(1)>>)
        THEN Return(True)
        ELSE IF PyIn(v1, <<PyStr(W_f), PyStr(W_n), PyStr(W_no),
                           PyStr(W_false), PyInt(0)>>)
        THEN Return(False)
        ELSE Return(v1)

\* BooleanVar.validate
BooleanVar_validate(self, value) ==
    LET v1 == IF IsString(value) THEN PyStr(lower(strip(value.s))) ELSE value
        v2 == IF PyIn(v1, <<PyStr(W_t), PyStr(W_y), PyStr(W_yes),
                            PyStr(W_true), PyInt(1)>>)
              THEN True
              ELSE IF PyIn(v1, <<PyStr(W_f), PyStr(W_n), PyStr(W_no),
                                 PyStr(W_false), PyInt(0)>>)
              THEN False
              ELSE v1
    IN  IF v2.type # "bool"
        THEN Raise(ValidationException, "Not a valid boolean value: %s", <<v2>>)
        ELSE Return(v2)

\* StringVar.validate, inherited by TextVar
StringVar_validate(self, value) ==
    IF ~IsString(value)
    THEN Raise(ValidationException, "Not a string value: %s", <<value>>)
    ELSE Return(PyStr(strip(value.s)))

\* StringChoiceVar.validate with the input's case kept
StringChoiceVar_validate_cased(self, value) ==
    IF ~IsString(value)
    THEN Raise("AttributeError", "%s object has no attribute 'strip'", <<value>>)
    ELSE LET v == strip(value.s)
         IN  IF ~(v \in Range(self.choices))
             THEN Raise(ValidationException,
                        "Not a valid value: %s\n Allowed values are %s",
                        <<PyStr(v), PyStr(join(<<",", " ">>, self.choices))>>)
             ELSE Return(PyStr(v))

\* StringChoiceVar.validate: value.strip() is looked up on whatever is passed
StringChoiceVar_validate(self, value) ==
    IF ~IsString(value)
    THEN Raise("AttributeError", "%s object has no attribute 'strip'", <<value>>)
    ELSE LET v == lower(strip(value.s))
         IN  IF ~(v \in Range(self.choices))
             THEN Raise(ValidationException,
                        "Not a valid value: %s\n Allowed values are %s",
                        <<PyStr(v), PyStr(join(<<",", " ">>, self.choices))>>)
             ELSE Return(PyStr(v))

\* OnOffVar.validate with the token lists of BooleanVar.validate
OnOffVar_validate_tokens(self, value) ==
    LET v1 == IF IsString(value) THEN PyStr(lower(strip(value.s))) ELSE value
    IN  IF PyIn(v1, <<PyStr(W_t), PyStr(W_y), PyStr(W_yes), PyStr(W_true),
                      PyInt(1)>>)
        THEN Return(PyStr(W_on))
        ELSE IF PyIn(v1, <<PyStr(W_f), PyStr(W_n), PyStr(W_no), PyStr(W_false),
                           PyInt(0)>>)
        THEN Return(PyStr(W_off))
        ELSE Raise(ValidationException, "Not a valid on/off value: %s", <<v1>>)

\* OnOffVar.validate
OnOffVar_validate(self, value) ==
    LET v1 == IF IsString(value) THEN PyStr(lower(strip(value.s))) ELSE value
    IN  IF PyIn(v1, <<PyStr(W_t), PyStr(W_y), PyStr(W_yes), PyStr(W_true),
                      PyInt(1), PyStr(W_on)>>)
        THEN Return(PyStr(W_on))
        ELSE IF PyIn(v1, <<PyStr(W_f), PyStr(W_n), PyStr(W_no), PyStr(W_false),
                           PyInt(0), PyStr(W_off)>>)
        THEN Return(PyStr(W_off))
        ELSE Raise(ValidationException, "Not a valid on/off value: %s", <<v1>>)

\* IntVar.validate: only int()'s ValueError is caught
IntVar_validate(self, value) ==
    LET r == int(value)
    IN  IF Raised(r, "ValueError")
        THEN Raise(ValidationException, "Not a valid int: %s", <<value>>)
        ELSE r

\* BoundedIntVar.validate with exclusive bounds
BoundedIntVar_validate_exclusive(self, value) ==
    LET r == IntVar_validate(self, value)
    IN  IF r.kind = "raise"
        THEN r
        ELSE IF ~(self.min < r.value.n /\ r.value.n < self.max)
        THEN Raise(ValidationException,
                   "%d does not fall within allowed bounds: %d:%d",
                   <<r.value, PyInt(self.min), PyInt(self.max)>>)
        ELSE r

\* BoundedIntVar.validate reporting a failed parse as a bounds failure
BoundedIntVar_validate_masked(self, value) ==
    LET r == IntVar_validate(self, value)
    IN  IF Raised(r, ValidationException)
        THEN Raise(ValidationException,
                   "%d does not fall within allowed bounds: %d:%d",
                   <<value, PyInt(self.min), PyInt(self.max)>>)
        ELSE IF r.kind = "raise"
        THEN r
        ELSE IF ~(self.min <= r.value.n /\ r.value.n <= self.max)
        THEN Raise(ValidationException,
                   "%d does not fall within allowed bounds: %d:%d",
                   <<r.value, PyInt(self.min), PyInt(self.max)>>)
        ELSE r

\* BoundedIntVar.validate
BoundedIntVar_validate(self, value) ==
    LET r == IntVar_validate(self, value)
    IN  IF r.kind = "raise"
        THEN r
        ELSE IF ~(self.min <= r.value.n /\ r.value.n <= self.max)
        THEN Raise(ValidationException,
                   "%d does not fall within allowed bounds: %d:%d",
                   <<r.value, PyInt(self.min), PyInt(self.max)>>)
        ELSE r

\* the for loop of DottedVar.validate over names[k..]
RECURSIVE CheckNames(_, _, _)
CheckNames(value, names, k) ==
    IF k > Len(names) THEN Return(PyStr(value))
    ELSE LET c == SlotsClass(names[k])
         IN  IF Raised(c, "TypeError")
             THEN Raise(ValidationException,
                        "Not a valid Python dotted name: %s ('%s' is not an identifier)",
                        <<PyStr(value), PyStr(names[k])>>)
             ELSE IF c.kind = "raise" THEN c
             ELSE CheckNames(value, names, k + 1)

\* DottedVar.validate
DottedVar_validate(self, value) ==
    IF ~IsString(value)
    THEN Raise(ValidationException, "Not a string value: %s", <<value>>)
    ELSE LET v == strip(value.s)
         IN  CheckNames(v, split(v), 1)

\* var.validate
var_validate(self, value) == Raise("NotImplementedError", "", <<>>)

\* self.validate(value), by the class of self
validate(self, value) ==
    CASE self.cls = "BooleanVar"      -> BooleanVar_validate(self, value)
      [] self.cls = "StringVar"       -> StringVar_validate(self, value)
      [] self.cls = "TextVar"         -> StringVar_validate(self, value)
      [] self.cls = "StringChoiceVar" -> StringChoiceVar_validate(self, value)
      [] self.cls = "OnOffVar"        -> OnOffVar_validate(self, value)
      [] self.cls = "IntVar"          -> IntVar_validate(self, value)
      [] self.cls = "BoundedIntVar"   -> BoundedIntVar_validate(self, value)
      [] self.cls = "DottedVar"       -> DottedVar_validate(self, value)
      [] OTHER                        -> var_validate(self, value)

----------------------------------------------------------------------------
(* Descriptors.  `attrs` is the set of attributes the instance has (the    *)
(* keys of its __dict__); a field whose attribute is absent holds a filler.*)

NoObj ==
    [cls |-> "", attrs |-> {}, name |-> None, description |-> None,
     default |-> None, should_echo |-> None, title |-> None, help |-> None,
     widget |-> None, modes |-> <<>>, page |-> "", structures |-> None,
     choices |-> <<>>, min |-> 0, max |-> 0]

\* a keyword that the call does not pass
Missing == [type |-> "<missing>", s |-> <<>>, n |-> 0]

\* compat.maxint (sys.maxint, sys.maxsize) of a 32-bit build
MAXINT == 2147483647
MININT == -MAXINT - 1

EASY   == "easy"
EXPERT == "expert"

WIDGET_STRING == <<"s","t","r","i","n","g">>
WIDGET_BOOLEAN == <<"b","o","o","l","e","a","n">>
WIDGET_SELECT == <<"s","e","l","e","c","t">>
WIDGET_TEXT == <<"t","e","x","t">>
WIDGET_ONOFF == <<"o","n","o","f","f">>

Classes == {"BooleanVar", "StringVar", "StringChoiceVar", "TextVar",
            "OnOffVar", "IntVar", "BoundedIntVar", "DottedVar"}

\* the class attribute _default_widget
default_widget(cls) ==
    CASE cls = "BooleanVar"      -> PyStr(WIDGET_BOOLEAN)
      [] cls = "StringChoiceVar" -> PyStr(WIDGET_SELECT)
      [] cls = "TextVar"         -> PyStr(WIDGET_TEXT)
      [] cls = "OnOffVar"        -> PyStr(WIDGET_ONOFF)
      [] OTHER                   -> PyStr(WIDGET_STRING)

\* var.__init__: what the call does ("out") and the instance as it leaves it
var_init(self, kw) ==
    LET s1 == [self EXCEPT
                 !.name = kw.name, !.description = kw.description,
                 !.default = kw.default, !.should_echo = kw.should_echo,
                 !.title = kw.title, !.help = kw.help,
                 !.widget = IF ~Truthy(kw.widget) THEN default_widget(self.cls)
                            ELSE kw.widget,
                 !.modes = kw.modes, !.page = kw.page,
                 !.attrs = @ \cup {"name", "description", "default",
                                   "should_echo", "title", "help", "widget",
                                   "modes", "page"}]
    IN  IF Truthy(kw.structures)
        THEN IF kw.structures.type # "dict"
             THEN [out |-> Raise("ValueError", "structures must be a dictionary", <<>>),
                   obj |-> s1]
             ELSE [out |-> Return(None),
                   obj |-> [s1 EXCEPT !.structures = kw.structures,
                                      !.attrs = @ \cup {"structures"}]]
        ELSE [out |-> Return(None), obj |-> s1]

\* StringChoiceVar.__init__
StringChoiceVar_init(self, kw) ==
    LET normalized_choices == [k \in 1..Len(kw.choices) |-> lower(kw.choices[k])]
    IN  var_init([self EXCEPT !.choices = normalized_choices,
                              !.attrs = @ \cup {"choices"}], kw)

\* BoundedIntVar.__init__
BoundedIntVar_init(self, kw) ==
    var_init([self EXCEPT
                !.min = IF kw.min # Missing THEN kw.min.n ELSE MININT,
                !.max = IF kw.max # Missing THEN kw.max.n ELSE MAXINT,
                !.attrs = @ \cup {"min", "max"}], kw)

\* cls(name, description, **kw)
init(cls, kw) ==
    LET self == [NoObj EXCEPT !.cls = cls]
    IN  CASE cls = "StringChoiceVar" -> StringChoiceVar_init(self, kw)
          [] cls = "BoundedIntVar"   -> BoundedIntVar_init(self, kw)
          [] OTHER                   -> var_init(self, kw)

\* '%s (%s)' % (a, b), of two str
Parenthesized(a, b) == PyStr(a.s \o <<" ", "(">> \o b.s \o <<")">>)

\* the mutant of pretty_description: the label is always the name
pretty_description_named(self) ==
    IF Truthy(self.description)
    THEN Return(Parenthesized(self.name, self.description))
    ELSE Return(self.name)

\* var.pretty_description
pretty_description(self) ==
    LET attr == IF "title" \in self.attrs THEN self.title ELSE self.name
        title == IF Truthy(attr) THEN attr ELSE self.name
    IN  IF Truthy(self.description)
        THEN Return(Parenthesized(title, self.description))
        ELSE Return(title)

\* var.full_description
full_description(self) ==
    IF Truthy(self.description)
    THEN Return(Parenthesized(self.name, self.description))
    ELSE Return(self.name)

----------------------------------------------------------------------------
(* var.print_vars.  A printed line is kept as its format and arguments.    *)

Line(f, a) == [fmt |-> f, args |-> a]

RECURSIVE MaxOf(_)
MaxOf(S) ==
    LET x == CHOOSE y \in S : TRUE
    IN  IF S = {x} THEN x
        ELSE LET m == MaxOf(S \ {x}) IN IF x > m THEN x ELSE m

\* the lines one pass of the loop prints for var
VarLines(var, indent, max_name) ==
    (IF Truthy(var.description)
     THEN <<Line("%s%s%s  %s",
                 <<PyStr(Spaces(indent)), var.name,
                   PyStr(Spaces(max_name - Len(var.name.s))),
                   var.description>>)>>
     ELSE <<Line("  %s", <<var.name>>)>>)
    \o (IF var.default # NoDefault
        THEN <<Line("      default: %r", <<var.default>>)>>
        ELSE <<>>)
    \o (IF var.should_echo = True
        THEN <<Line("      should_echo: %s", <<var.should_echo>>)>>
        ELSE <<>>)

RECURSIVE LoopLines(_, _, _)
LoopLines(vs, indent, max_name) ==
    IF vs = <<>> THEN <<>>
    ELSE VarLines(Head(vs), indent, max_name)
         \o LoopLines(Tail(vs), indent, max_name)

\* var.print_vars(vars, indent): what the call does and what it prints
print_vars(vs, indent) ==
    IF vs = <<>>
    THEN [out |-> Raise("ValueError", "max() arg is an empty sequence", <<>>),
          stdout |-> <<>>]
    ELSE LET max_name == MaxOf({Len(vs[k].name.s) : k \in 1..Len(vs)})
         IN  [out |-> Return(None),
              stdout |-> LoopLines(vs, indent, max_name) \o <<Line("", <<>>)>>]

\* the text of the first line of an entry: the format filled with the
\* arguments, each of them a str
Text(line) ==
    CASE line.fmt = "%s%s%s  %s" ->
           line.args[1].s \o line.args[2].s \o line.args[3].s
               \o <<" ", " ">> \o line.args[4].s
      [] line.fmt = "  %s" -> <<" ", " ">> \o line.args[1].s

----------------------------------------------------------------------------
(* control_script.Runner.  A dict is kept as the set of its <<key, value>> *)
(* items, a text by the name of the module constant that holds it.         *)

Keys(d) == {item[1] : item \in d}
Get(d, k) == (CHOOSE item \in d : item[1] = k)[2]

\* the dict d after d.update(other)
update(d, other) == {item \in d : item[1] \notin Keys(other)} \cup other

\* the dict the class body binds to Runner.texts
texts ==
    {<<"usage", "USAGE">>, <<"description", "DESCRIPTION">>,
     <<"dot_help", "DOT_HELP">>, <<"dotfile_header", "DOTFILE_HEADER">>,
     <<"help_prompt", "HELP_PROMPT">>, <<"id_warning", "ID_WARNING">>,
     <<"not_here_warning", "NOT_HERE_WARNING">>,
     <<"no_localcommands_warning", "NO_LOCALCOMMANDS_WARNING">>}

\* an argument passed as `texts`: a dict of the items, or a value of
\* another type
Dict(items) == [type |-> "dict", items |-> items]
NotDict(type) == [type |-> type, items |-> {}]

\* a Runner instance: `attrs` are the keys of its __dict__, an attribute
\* outside them is read from the class
NoRunner ==
    [attrs |-> {}, name |-> "templer", versions |-> "", dotfile |-> ".zopeskel",
     texts |-> {}, allowed_packages |-> "all"]

\* self.texts: the instance attribute if there is one, else Runner.texts
Runner_self_texts(self, class_texts) ==
    IF "texts" \in self.attrs THEN self.texts ELSE class_texts

\* Runner.__init__, in the environment env (the installed packages and the
\* scope _context_awareness finds) and with class_texts bound to
\* Runner.texts: what the call does, the instance as it leaves it, and the
\* dict bound to Runner.texts afterwards.  A name, a list of versions and a
\* dotfile are kept as strings, "" standing for None.
Runner_init(self, kw, env, class_texts) ==
    LET s1 == IF kw.name # "" THEN [self EXCEPT !.name = kw.name,
                                                !.attrs = @ \cup {"name"}]
              ELSE self
        s2 == [s1 EXCEPT !.versions = IF kw.versions # "" THEN kw.versions
                                      ELSE env.packages,
                         !.attrs = @ \cup {"versions"}]
        s3 == IF kw.dotfile # "" THEN [s2 EXCEPT !.dotfile = kw.dotfile,
                                                 !.attrs = @ \cup {"dotfile"}]
              ELSE s2
    IN  IF kw.texts.type # "dict"
        THEN [out |-> Raise("ValueError",
                            "If passed, texts argument must be a dict", <<>>),
              obj |-> s3, texts |-> class_texts]
        ELSE LET updated ==
                   IF "texts" \in s3.attrs
                   THEN [self |-> [s3 EXCEPT !.texts = update(@, kw.texts.items)],
                         class |-> class_texts]
                   ELSE [self |-> s3,
                         class |-> update(class_texts, kw.texts.items)]
                 s4 == updated.self
             IN  [out |-> Return(None),
                  obj |-> IF kw.context_aware
                          THEN [s4 EXCEPT !.allowed_packages = env.scope,
                                          !.attrs = @ \cup {"allowed_packages"}]
                          ELSE s4,
                  texts |-> updated.class]

\* a template: `ndots` is None when the template has no such attribute
Template(ndots) ==
    [attrs |-> IF ndots = None THEN {} ELSE {"ndots"}, ndots |-> ndots]

\* s.count(".")
count_dots(s) == Cardinality({k \in 1..Len(s) : s[k] = "."})

\* Runner._checkdots
Runner_checkdots(self, template, name) ==
    LET cdots == count_dots(name.s)
    IN  IF cdots > 5
        THEN Raise("ValueError",
                   "Five dots should be more than enough, no black hole please",
                   <<>>)
        ELSE Return(None)

----------------------------------------------------------------------------
(* The calls of a run *)

NoCall ==
    [op |-> "", self |-> 0, cls |-> "", arg |-> None, args |-> <<>>,
     fed |-> FALSE, outcome |-> Return(None), stdout |-> <<>>]

\* objs[i] = cls(**kw): the slot is bound only when the constructor returns
New(i, cls, kw) ==
    LET r == init(cls, kw)
    IN  /\ objs' = IF r.out.kind = "return" THEN [objs EXCEPT ![i] = r.obj]
                   ELSE objs
        /\ last' = [op |-> "__init__", self |-> i, cls |-> cls,
                    arg |-> kw.structures, args |-> <<>>, fed |-> FALSE,
                    outcome |-> r.out, stdout |-> <<>>]
        /\ UNCHANGED <<input, Runner_texts, runners>>

\* the mutant of Validate: the value validate returns is kept as the default
Validate_keeping(i) ==
    /\ objs[i] # NoObj
    /\ LET outcome == validate(objs[i], input)
       IN  /\ last' = [op |-> "validate", self |-> i, cls |-> objs[i].cls,
                       arg |-> input, args |-> <<>>, fed |-> FALSE,
                       outcome |-> outcome, stdout |-> <<>>]
           /\ objs' = IF outcome.kind = "return"
                      THEN [objs EXCEPT ![i].default = outcome.value]
                      ELSE objs
    /\ UNCHANGED <<input, Runner_texts, runners>>

\* objs[i].validate(input)
Validate(i) ==
    /\ objs[i] # NoObj
    /\ last' = [op |-> "validate", self |-> i, cls |-> objs[i].cls,
                arg |-> input, args |-> <<>>, fed |-> FALSE,
                outcome |-> validate(objs[i], input), stdout |-> <<>>]
    /\ UNCHANGED <<objs, input, Runner_texts, runners>>

\* objs[i].validate(r), r the value its validate has just returned
Revalidate(i) ==
    /\ objs[i] # NoObj
    /\ last.op = "validate" /\ last.self = i /\ last.outcome.kind = "return"
    /\ last' = [op |-> "validate", self |-> i, cls |-> objs[i].cls,
                arg |-> last.outcome.value, args |-> <<>>, fed |-> TRUE,
                outcome |-> validate(objs[i], last.outcome.value),
                stdout |-> <<>>]
    /\ UNCHANGED <<objs, input, Runner_texts, runners>>

\* var.print_vars([objs[k] for k in slots], indent)
PrintVars(slots, indent) ==
    /\ \A k \in 1..Len(slots) : objs[slots[k]] # NoObj
    /\ LET r == print_vars([k \in 1..Len(slots) |-> objs[slots[k]]], indent)
       IN  last' = [op |-> "print_vars", self |-> 0, cls |-> "var",
                    arg |-> PyList(Len(slots)), args |-> <<slots, indent>>,
                    fed |-> FALSE, outcome |-> r.out, stdout |-> r.stdout]
    /\ UNCHANGED <<objs, input, Runner_texts, runners>>

\* objs[i].pretty_description()
PrettyDescription(i) ==
    /\ objs[i] # NoObj
    /\ last' = [op |-> "pretty_description", self |-> i, cls |-> objs[i].cls,
                arg |-> None, args |-> <<>>, fed |-> FALSE,
                outcome |-> pretty_description(objs[i]), stdout |-> <<>>]
    /\ UNCHANGED <<objs, input, Runner_texts, runners>>

\* objs[i].full_description()
FullDescription(i) ==
    /\ objs[i] # NoObj
    /\ last' = [op |-> "full_description", self |-> i, cls |-> objs[i].cls,
                arg |-> None, args |-> <<>>, fed |-> FALSE,
                outcome |-> full_description(objs[i]), stdout |-> <<>>]
    /\ UNCHANGED <<objs, input, Runner_texts, runners>>

\* runners[i] = Runner(**kw), in the environment env
NewRunner(i, kw, env) ==
    LET r == Runner_init(NoRunner, kw, env, Runner_texts)
    IN  /\ runners' = IF r.out.kind = "return"
                      THEN [runners EXCEPT ![i] = r.obj]
                      ELSE runners
        /\ Runner_texts' = r.texts
        /\ last' = [op |-> "Runner", self |-> i, cls |-> "Runner",
                    arg |-> None, args |-> <<kw>>, fed |-> FALSE,
                    outcome |-> r.out, stdout |-> <<>>]
        /\ UNCHANGED <<objs, input>>

\* runners[i]._checkdots(template, input)
CheckDots(i, template) ==
    /\ runners[i] # NoRunner
    /\ last' = [op |-> "_checkdots", self |-> i, cls |-> "Runner",
                arg |-> input, args |-> <<template>>, fed |-> FALSE,
                outcome |-> Runner_checkdots(runners[i], template, input),
                stdout |-> <<>>]
    /\ UNCHANGED <<objs, input, Runner_texts, runners>>

\* the caller takes v as the next raw value
Receive(v) ==
    /\ input' = v
    /\ UNCHANGED <<objs, last, Runner_texts, runners>>

----------------------------------------------------------------------------
(* The inputs of a run *)

\* the characters of the generic text inputs
Alphabet == {" ", "a", "A", "1", "-", ".", "_"}

Strings(n) == UNION {[1..k -> Alphabet] : k \in 0..n}

\* the tokens of the Boolean and On/Off variants
TokenWords ==
    { <<"t">>,
      <<"y">>,
      <<"y","e","s">>,
      <<"t","r","u","e">>,
      <<"1">>,
      <<"f">>,
      <<"n">>,
      <<"n","o">>,
      <<"f","a","l","s","e">>,
      <<"0">>,
      <<"o","n">>,
      <<"o","f","f">> }

\* words that are no token, integer literals and non-literals
PlainWords ==
    { <<"m","a","y","b","e">>,
      <<"2">>,
      <<"y","e","s","s">>,
      <<"t","r">>,
      <<"1","0">>,
      <<"0","1">> }

\* dotted names, legal and not
DottedWords ==
    { <<"-","3">>,
      <<"+","2">>,
      <<"0","0","7">>,
      <<"1","_","0">>,
      <<"a","b","c">>,
      <<"6","5","5","3","5">>,
      <<"7","0","0","0","0">>,
      <<"-","-","1">>,
      <<"1"," ","1">>,
      <<"1",".","0">>,
      <<"f","o","o",".","b","a","r",".","b","a","z">>,
      <<"f","o","o",".",".","b","a","r">>,
      <<"1","f","o","o",".","b","a","r">>,
      <<"f","o","o",".","c","l","a","s","s">>,
      <<"i","m","p","o","r","t",".","b","a","r">>,
      <<"_","_","m","o","d","u","l","e","_","_">>,
      <<"f","o","o",".","_","_","s","l","o","t","s","_","_">>,
      <<"f","o","o",".">>,
      <<".","f","o","o">>,
      <<"a"," ","b",".","c">>,
      <<"f","o","o",".","b","-","r",".","1","x">> }

\* the choices of the String-Choice descriptors, and a word that is none
ChoiceWords ==
    { <<"d","r","a","f","t">>,
      <<"f","i","n","a","l">>,
      <<"p","u","b","l","i","s","h","e","d">>,
      <<"g","p","l">>,
      <<"b","s","d">>,
      <<"m","i","t">> }

SampleWords == TokenWords \cup PlainWords \cup DottedWords \cup ChoiceWords

upper(s) == [k \in 1..Len(s) |-> UpperChar(s[k])]
capitalize(s) == [k \in 1..Len(s) |-> IF k = 1 THEN UpperChar(s[k]) ELSE LowerChar(s[k])]

CaseVariants(word) == {word, upper(word), capitalize(word)}

Padded(word) == {Spaces(l) \o word \o Spaces(r) : l, r \in 0..MaxPad}

TextInputs ==
    {PyStr(s) : s \in Strings(MaxLen)}
    \cup {PyStr(s) : s \in UNION {Padded(v) : v \in UNION {CaseVariants(x) : x \in SampleWords}}}
    \cup {PyStr(<<"\t">> \o x \o <<"\n">>) : x \in TokenWords}

NonTextInputs ==
    {PyInt(n) : n \in -MaxInt..MaxInt}
    \cup {PyFloat(h) : h \in -MaxInt..MaxInt}
    \cup {True, False, None}

Inputs == TextInputs \cup NonTextInputs

\* the values passed as `structures`
StructureArgs ==
    {None, PyDict(0), PyDict(1), PyList(0), PyList(1), PyStr(<<>>), PyStr(<<"x">>)}

\* the lists passed as `choices`
ChoiceArgs ==
    { <<<<"d","r","a","f","t">>, <<"f","i","n","a","l">>>>,
      <<<<"g","p","l">>, <<"b","s","d">>, <<"m","i","t">>>>,
      <<<<"Y","e","s">>, <<"N","O">>, <<" ", "a">>>>,
      <<>> }

\* the values passed as `min` and `max`, or not passed
BoundArgs == {Missing} \cup {PyInt(n) : n \in -MaxBound..MaxBound}

N_var == <<"v","a","r">>
N_project == <<"p","r","o","j","e","c","t">>

\* the keywords of a constructor call, the defaults of var.__init__ filled in
Kw(name, description, default, should_echo, title, structures) ==
    [name |-> name, description |-> description, default |-> default,
     should_echo |-> should_echo, title |-> title, help |-> None,
     widget |-> None, structures |-> structures,
     modes |-> <<EASY, EXPERT>>, page |-> "Main",
     choices |-> <<>>, min |-> Missing, max |-> Missing]

\* the constructor calls of class cls that pass one of `structs`
Calls(cls, structs) ==
    LET base == {Kw(PyStr(N_var), PyStr(<<>>), PyStr(<<>>), True, None, s) :
                    s \in structs}
    IN  CASE cls = "StringChoiceVar" ->
               {[k EXCEPT !.choices = c] : k \in base, c \in ChoiceArgs}
          [] cls = "BoundedIntVar" ->
               {[k EXCEPT !.min = lo, !.max = hi] :
                    k \in base, lo \in BoundArgs, hi \in BoundArgs}
               \cup {[k EXCEPT !.min = PyInt(1), !.max = PyInt(65535)] : k \in base}
          [] OTHER -> base

----------------------------------------------------------------------------
(* The specification of construction and validation: a run constructs a    *)
(* descriptor and validates the input with it, and may validate again what *)
(* validate returned.                                                      *)

Init ==
    /\ objs = [i \in {1} |-> NoObj]
    /\ input \in Inputs
    /\ last = NoCall
    /\ Runner_texts = texts
    /\ runners = <<>>

Next ==
    \/ \E i \in DOMAIN objs, cls \in Classes :
         \E kw \in Calls(cls, {None}) :
            objs[i] = NoObj /\ New(i, cls, kw)
    \/ \E i \in DOMAIN objs : Validate(i)
    \/ \E i \in DOMAIN objs : Revalidate(i)

Spec == Init /\ [][Next]_vars

----------------------------------------------------------------------------
(* The specification of construction alone: every class is constructed     *)
(* with every value of `structures`.                                       *)

InitConstruct ==
    /\ objs = [i \in {1} |-> NoObj]
    /\ input = None
    /\ last = NoCall
    /\ Runner_texts = texts
    /\ runners = <<>>

NextConstruct ==
    \E i \in DOMAIN objs, cls \in Classes :
       \E kw \in Calls(cls, StructureArgs) :
          objs[i] = NoObj /\ New(i, cls, kw)

SpecConstruct == InitConstruct /\ [][NextConstruct]_vars

----------------------------------------------------------------------------
(* The specification of the batch listing: two slots are bound to string   *)
(* descriptors of every name, description, default and should_echo below,  *)
(* and sequences of them are listed.                                       *)

ListedCalls ==
    {Kw(name, description, default, should_echo, None, None) :
        name \in {PyStr(N_var), PyStr(N_project)},
        description \in {PyStr(<<>>), PyStr(<<"d">>)},
        default \in {NoDefault, PyStr(<<>>), PyStr(<<"x">>)},
        should_echo \in {True, False}}

SlotSeqs(n) == UNION {[1..k -> DOMAIN objs] : k \in 0..n}

InitPrint ==
    /\ objs = [i \in {1, 2} |-> NoObj]
    /\ input = None
    /\ last = NoCall
    /\ Runner_texts = texts
    /\ runners = <<>>

NextPrint ==
    \/ \E i \in DOMAIN objs : \E kw \in ListedCalls :
         objs[i] = NoObj /\ New(i, "StringVar", kw)
    \/ \E slots \in SlotSeqs(MaxVars), indent \in 0..MaxIndent :
         PrintVars(slots, indent)

SpecPrint == InitPrint /\ [][NextPrint]_vars

----------------------------------------------------------------------------
(* The specification of the descriptions: a descriptor of every class,     *)
(* name, description and title below is constructed and described.         *)

N_Title == <<"T","i","t","l","e">>

DescribedCalls(cls) ==
    {[k EXCEPT !.name = name, !.description = description, !.title = title] :
        k \in Calls(cls, {None}),
        name \in {PyStr(N_var), PyStr(N_project)},
        description \in {None, PyStr(<<>>), PyStr(<<"d">>)},
        title \in {None, PyStr(<<>>), PyStr(N_Title)}}

InitDescribe ==
    /\ objs = [i \in {1} |-> NoObj]
    /\ input = None
    /\ last = NoCall
    /\ Runner_texts = texts
    /\ runners = <<>>

NextDescribe ==
    \/ \E i \in DOMAIN objs, cls \in Classes :
         \E kw \in DescribedCalls(cls) :
            objs[i] = NoObj /\ New(i, cls, kw)
    \/ \E i \in DOMAIN objs : PrettyDescription(i)
    \/ \E i \in DOMAIN objs : FullDescription(i)

SpecDescribe == InitDescribe /\ [][NextDescribe]_vars

----------------------------------------------------------------------------
(* The specification of repeated validation: two slots are bound to        *)
(* descriptors of any class, and raw values are validated with them in     *)
(* any order, any number of times.                                         *)

\* the constructor call of class cls
FrameCall(cls) ==
    LET kw == Kw(PyStr(N_var), PyStr(<<"d">>), PyStr(<<"x">>), True, None, None)
    IN  CASE cls = "StringChoiceVar" ->
               [kw EXCEPT !.choices = <<<<"Y","e","s">>, <<"N","O">>>>]
          [] cls = "BoundedIntVar" ->
               [kw EXCEPT !.min = PyInt(0), !.max = PyInt(1)]
          [] OTHER -> kw

\* the raw values
FrameInputs ==
    {PyStr(<<"y","e","s">>), PyStr(<<" ","O","n">>), PyStr(<<"1">>),
     PyStr(<<"a",".","b">>), PyStr(<<"5">>), PyInt(1), None}

InitFrame ==
    /\ objs = [i \in {1, 2} |-> NoObj]
    /\ input \in FrameInputs
    /\ last = NoCall
    /\ Runner_texts = texts
    /\ runners = <<>>

NextFrame ==
    \/ \E i \in DOMAIN objs, cls \in Classes :
         objs[i] = NoObj /\ New(i, cls, FrameCall(cls))
    \/ \E i \in DOMAIN objs : Validate(i)
    \/ \E v \in FrameInputs : Receive(v)

SpecFrame == InitFrame /\ [][NextFrame]_vars

----------------------------------------------------------------------------
(* The specifications of the Runner.  Both start when control_script has   *)
(* been imported: the class body has bound Runner.texts and                *)
(* templer_runner = Runner() has run, in any environment.                  *)

Envs ==
    {[packages |-> "installed", scope |-> scope] :
        scope \in {"global", "local", "none"}}

\* the keywords of a Runner call
RunnerKw(name, versions, dotfile, texts_arg, context_aware) ==
    [name |-> name, versions |-> versions, dotfile |-> dotfile,
     texts |-> texts_arg, context_aware |-> context_aware]

\* templer_runner = Runner()
templer_runner(env) ==
    Runner_init(NoRunner, RunnerKw("", "", "", Dict({}), TRUE), env, texts)

\* the dicts passed as `texts`: at most MaxTexts items
Overrides ==
    LET items == {"usage", "help_prompt"} \X {"MY_TEXT", "OTHER_TEXT"}
    IN  {d \in SUBSET items :
            /\ Cardinality(d) <= MaxTexts
            /\ Cardinality(Keys(d)) = Cardinality(d)}

RunnerCalls ==
    {RunnerKw(name, "", "", texts_arg, context_aware) :
        name \in {"", "myskel"},
        texts_arg \in {Dict(d) : d \in Overrides}
                       \cup {NotDict("NoneType"), NotDict("list")},
        context_aware \in BOOLEAN}

InitRunner ==
    /\ objs = <<>>
    /\ input = None
    /\ last = NoCall
    /\ \E env \in Envs :
          /\ Runner_texts = templer_runner(env).texts
          /\ runners = [i \in 1..(1 + MaxRunners) |->
                           IF i = 1 THEN templer_runner(env).obj ELSE NoRunner]

NextRunner ==
    \E i \in DOMAIN runners, kw \in RunnerCalls, env \in Envs :
       runners[i] = NoRunner /\ NewRunner(i, kw, env)

SpecRunner == InitRunner /\ [][NextRunner]_vars

\* the project names: the generic strings and some dotted names
ProjectNames ==
    {PyStr(s) : s \in Strings(MaxLen)}
    \cup {PyStr(<<"f","o","o">>), PyStr(<<"f","o","o",".","b","a","r">>),
          PyStr(<<"f","o","o",".","b","a","r",".","b","a","z">>),
          PyStr(<<"1","f","o","o",".","b","a","r">>),
          PyStr(<<"f","o","o",".",".","b","a","r">>),
          PyStr(<<"f","o","o","-","b","a","r">>),
          PyStr(<<"a",".","b",".","c",".","d",".","e",".","f">>),
          PyStr(<<"a",".","b",".","c",".","d",".","e",".","f",".","g">>)}

Templates == {Template(None)} \cup {Template(PyInt(n)) : n \in 0..MaxDots}

InitDots ==
    /\ objs = <<>>
    /\ input \in ProjectNames
    /\ last = NoCall
    /\ \E env \in Envs :
          /\ Runner_texts = templer_runner(env).texts
          /\ runners = [i \in {1} |-> templer_runner(env).obj]

NextDots ==
    \E i \in DOMAIN runners, template \in Templates : CheckDots(i, template)

SpecDots == InitDots /\ [][NextDots]_vars

----------------------------------------------------------------------------
(* The claims *)

Validated(cls) == last.op = "validate" /\ last.cls = cls
Self == objs[last.self]

W_1 == <<"1">>
W_0 == <<"0">>

\* C1 (as claimed): on a text input BooleanVar.validate returns True when the
\* input, trimmed and lower-cased, is one of t, y, yes, true, 1; returns False
\* when it is one of f, n, no, false, 0; and raises ValidationException for
\* every other text.
C1_BooleanTokens ==
    (Validated("BooleanVar") /\ IsString(last.arg)) =>
        LET word == lower(strip(last.arg.s))
        IN  IF word \in {W_t, W_y, W_yes, W_true, W_1}
            THEN last.outcome = Return(True)
            ELSE IF word \in {W_f, W_n, W_no, W_false, W_0}
            THEN last.outcome = Return(False)
            ELSE Raised(last.outcome, ValidationException)

\* C2: with min <= max and an input that int() accepts, BoundedIntVar.validate
\* returns what IntVar.validate returns, the integer itself, when
\* min <= int(x) <= max, and raises ValidationException when int(x) < min or
\* int(x) > max.
C2_BoundedInclusive ==
    (/\ Validated("BoundedIntVar")
     /\ Self.min <= Self.max
     /\ int(last.arg).kind = "return") =>
        LET n == int(last.arg).value.n
        IN  IF Self.min <= n /\ n <= Self.max
            THEN /\ last.outcome = Return(PyInt(n))
                 /\ last.outcome = IntVar_validate(Self, last.arg)
            ELSE Raised(last.outcome, ValidationException)

\* C2's case: the text of min - 1 is rejected by a descriptor with min < max
C2_Witness ==
    /\ Validated("BoundedIntVar") /\ IsString(last.arg)
    /\ Self.min < Self.max
    /\ int(last.arg).kind = "return"
    /\ int(last.arg).value.n + 1 = Self.min
    /\ Raised(last.outcome, ValidationException)

\* the choice lists whose lower-cased form is the descriptor's
ChoicesOf(self) ==
    {C \in ChoiceArgs : self.choices = [k \in 1..Len(C) |-> lower(C[k])]}

\* C3: StringChoiceVar.validate succeeds exactly when the input, trimmed and
\* lower-cased, is the lower-cased form of an element of the choice list the
\* descriptor was constructed with, and then returns that text, a member of
\* the lower-cased choices; otherwise it raises ValidationException.
C3_ChoiceMembership ==
    (Validated("StringChoiceVar") /\ IsString(last.arg)) =>
        LET v == lower(strip(last.arg.s))
        IN  /\ ChoicesOf(Self) # {}
            /\ \A C \in ChoicesOf(Self) :
                 IF \E k \in 1..Len(C) : v = lower(C[k])
                 THEN /\ last.outcome = Return(PyStr(v))
                      /\ last.outcome.value.s \in Range(Self.choices)
                 ELSE Raised(last.outcome, ValidationException)

\* C3's case: an input of another case and with whitespace around it is accepted
C3_Witness ==
    /\ Validated("StringChoiceVar") /\ IsString(last.arg)
    /\ last.outcome.kind = "return"
    /\ last.outcome.value.s # last.arg.s
    /\ last.outcome.value.s # strip(last.arg.s)
    /\ Len(strip(last.arg.s)) < Len(last.arg.s)

\* the first segment that is no identifier, 0 when all are
FirstIllegal(names) ==
    IF \E k \in 1..Len(names) : ~IsIdentifier(names[k])
    THEN CHOOSE k \in 1..Len(names) :
            /\ ~IsIdentifier(names[k])
            /\ \A j \in 1..(k - 1) : IsIdentifier(names[j])
    ELSE 0

\* C4 (as claimed): on a text input DottedVar.validate returns the trimmed
\* value when every segment is an identifier, and otherwise raises
\* ValidationException with a message that names the whole value and the
\* leftmost segment that is no identifier.  (The whole value is compared up
\* to the surrounding whitespace: the message is built after the trimming.)
C4_DottedFirstIllegal ==
    (Validated("DottedVar") /\ IsString(last.arg)) =>
        LET names == split(strip(last.arg.s))
            k     == FirstIllegal(names)
        IN  IF k = 0
            THEN last.outcome = Return(PyStr(strip(last.arg.s)))
            ELSE /\ Raised(last.outcome, ValidationException)
                 /\ Len(last.outcome.args) = 2
                 /\ strip(last.outcome.args[1].s) = strip(last.arg.s)
                 /\ last.outcome.args[2] = PyStr(names[k])

\* the reserved words that Python 2 and Python 3 share
ReservedWords ==
    { <<"a","n","d">>, <<"a","s">>, <<"a","s","s","e","r","t">>,
      <<"b","r","e","a","k">>, <<"c","l","a","s","s">>, <<"c","o","n","t","i","n","u","e">>,
      <<"d","e","f">>, <<"d","e","l">>, <<"e","l","i","f">>,
      <<"e","l","s","e">>, <<"e","x","c","e","p","t">>, <<"f","i","n","a","l","l","y">>,
      <<"f","o","r">>, <<"f","r","o","m">>, <<"g","l","o","b","a","l">>,
      <<"i","f">>, <<"i","m","p","o","r","t">>, <<"i","n">>,
      <<"i","s">>, <<"l","a","m","b","d","a">>, <<"n","o","t">>,
      <<"o","r">>, <<"p","a","s","s">>, <<"r","a","i","s","e">>,
      <<"r","e","t","u","r","n">>, <<"t","r","y">>, <<"w","h","i","l","e">>,
      <<"w","i","t","h">>, <<"y","i","e","l","d">> }

\* C5 (as claimed): DottedVar.validate raises ValidationException for every
\* dotted name one of whose segments is a reserved word.
C5_DottedReserved ==
    (/\ Validated("DottedVar") /\ IsString(last.arg)
     /\ \E name \in Range(split(strip(last.arg.s))) : name \in ReservedWords) =>
        Raised(last.outcome, ValidationException)

\* C6 (as claimed): a constructor passed a `structures` that is no dict, an
\* empty list or an empty str included, raises the configuration error and
\* binds no descriptor; passed a dict it returns and the descriptor has that
\* dict as its structures attribute.
C6_StructuresChecked ==
    (last.op = "__init__" /\ last.arg # None) =>
        IF last.arg.type # "dict"
        THEN Raised(last.outcome, "ValueError") /\ Self = NoObj
        ELSE /\ last.outcome.kind = "return"
             /\ "structures" \in Self.attrs
             /\ Self.structures = last.arg

\* C7 (as claimed): print_vars of an empty sequence returns normally.
C7_PrintEmpty ==
    (last.op = "print_vars" /\ last.arg = PyList(0)) =>
        last.outcome.kind = "return"

\* C8 (as claimed): validate, of every class and on every value, returns or
\* raises ValidationException, and raises nothing else.
C8_OnlyValidationErrors ==
    last.op = "validate" =>
        last.outcome.kind = "return" \/ Raised(last.outcome, ValidationException)

\* C9: what OnOffVar.validate returns is the str 'on' or the str 'off', and
\* validating it again returns it unchanged.
C9_OnOffIdempotent ==
    (Validated("OnOffVar") /\ last.outcome.kind = "return") =>
        /\ last.outcome.value \in {PyStr(W_on), PyStr(W_off)}
        /\ OnOffVar_validate(Self, last.outcome.value) = Return(last.outcome.value)
        /\ last.fed => last.outcome.value = last.arg

\* C9's case: validate(validate('ON ')) has returned 'on'
C9_Witness ==
    /\ Validated("OnOffVar") /\ last.fed
    /\ input = PyStr(<<"O","N"," ">>)
    /\ last.arg = PyStr(W_on)
    /\ last.outcome = Return(PyStr(W_on))

FMT_BOUNDS == "%d does not fall within allowed bounds: %d:%d"

\* C10: on an input that int() does not accept, BoundedIntVar.validate fails
\* as IntVar.validate does, with the parse error naming the input and never
\* with the bounds error, whatever the bounds; the bounds error is raised only
\* for an input that int() accepts, and names its integer and both bounds.
C10_ParseBeforeBounds ==
    Validated("BoundedIntVar") =>
        /\ int(last.arg).kind = "raise" =>
              /\ last.outcome = IntVar_validate(Self, last.arg)
              /\ last.outcome.kind = "raise"
              /\ last.outcome.fmt # FMT_BOUNDS
              /\ Raised(int(last.arg), "ValueError") =>
                    last.outcome = Raise(ValidationException,
                                         "Not a valid int: %s", <<last.arg>>)
        /\ (last.outcome.kind = "raise" /\ last.outcome.fmt = FMT_BOUNDS) =>
              /\ int(last.arg).kind = "return"
              /\ last.outcome = Raise(ValidationException, FMT_BOUNDS,
                                      <<int(last.arg).value, PyInt(Self.min),
                                        PyInt(Self.max)>>)

\* C10's case: 'abc' is rejected with the parse error by a descriptor none of
\* whose bounds any integer satisfies
C10_Witness ==
    /\ Validated("BoundedIntVar")
    /\ Self.min > Self.max
    /\ last.arg = PyStr(<<"a","b","c">>)
    /\ last.outcome = Raise(ValidationException, "Not a valid int: %s",
                            <<last.arg>>)


----------------------------------------------------------------------------
\* the label of pretty_description
Label(self) == IF Truthy(self.title) THEN self.title ELSE self.name

Described(label, description) ==
    IF description # None /\ description.s # <<>>
    THEN Return(PyStr(label.s \o <<" ", "(">> \o description.s \o <<")">>))
    ELSE Return(label)

\* C11: pretty_description() returns '<label> (<description>)' when the
\* description is non-empty and '<label>' otherwise, the label being the
\* title when a non-empty title was set and the name otherwise;
\* full_description() returns the same with the name as the label; the two
\* agree when no title was set; neither call fails.
C11_Descriptions ==
    /\ last.op = "pretty_description" =>
          /\ last.outcome = Described(Label(Self), Self.description)
          /\ ~Truthy(Self.title) => last.outcome = full_description(Self)
    /\ last.op = "full_description" =>
          last.outcome = Described(Self.name, Self.description)

\* a titled and described descriptor has been described by its title
C11_Witness ==
    /\ last.op = "pretty_description"
    /\ Self.title = PyStr(N_Title) /\ Self.description = PyStr(<<"d">>)
    /\ last.outcome.kind = "return"
    /\ last.outcome.value.s = N_Title \o <<" ", "(", "d", ")">>


----------------------------------------------------------------------------
\* the descriptor of class cls as its constructor leaves it
Fresh(cls) == init(cls, FrameCall(cls)).obj

\* C12: a validate call, succeeding or failing, leaves every attribute of
\* its descriptor and every other descriptor unchanged; and after any
\* sequence of validate calls, validate(v) gives the outcome it gives on the
\* freshly constructed descriptor.
C12_ValidateFrame ==
    /\ [][last'.op = "validate" => objs' = objs]_vars
    /\ [](last.op = "validate" =>
            /\ Self = Fresh(last.cls)
            /\ last.outcome = validate(Fresh(last.cls), last.arg))

\* two descriptors are bound, and a validate call that failed on the first
\* has been followed by a change of value
C12_Witness ==
    /\ objs[1] # NoObj /\ objs[2] # NoObj /\ objs[1].cls # objs[2].cls
    /\ last.op = "validate" /\ last.self = 1
    /\ last.outcome.kind = "raise"
    /\ input # last.arg


----------------------------------------------------------------------------
\* C13: Runner._checkdots(template, name) raises ValueError for every name
\* whose number of dots differs from the template's ndots and for every name
\* with a dot-separated part that is not a legal identifier; it accepts a
\* name with the expected number of dots whose parts are all identifiers.
C13_CheckDots ==
    last.op = "_checkdots" =>
        LET template == last.args[1]
            parts == split(last.arg.s)
            expected == "ndots" \in template.attrs =>
                           Len(parts) - 1 = template.ndots.n
            legal == \A k \in 1..Len(parts) : IsIdentifier(parts[k])
        IN  IF expected /\ legal
            THEN last.outcome.kind = "return"
            ELSE Raised(last.outcome, "ValueError")

----------------------------------------------------------------------------
\* the texts the Runner of slot j sees
TextsSeen(j) == Runner_self_texts(runners[j], Runner_texts)

\* C16: constructing a Runner with a texts override affects only that
\* runner: the texts every other Runner instance sees, the module-level
\* default runner included, are the ones it saw before the construction.
C16_TextsPerRunner ==
    [][last'.op = "Runner" =>
         \A j \in DOMAIN runners :
            (runners[j] # NoRunner /\ j # last'.self) =>
                TextsSeen(j)' = TextsSeen(j)]_vars


----------------------------------------------------------------------------
\* the descriptors the last print_vars call listed, and its indentation
Listed == [k \in 1..Len(last.args[1]) |-> objs[last.args[1][k]]]
Indent == last.args[2]

\* the first line of the entry of var: the name after the indentation,
\* then the padding and the description if there is one
FirstLine(line, var, indent, max_name) ==
    LET name == Spaces(indent) \o var.name.s
        padding == Spaces(max_name - Len(var.name.s))
    IN  IF Truthy(var.description)
        THEN Text(line) = name \o padding \o <<" ", " ">> \o var.description.s
        ELSE Text(line) \in {name, name \o padding}

\* lines are the entries of vs, in order
RECURSIVE Entries(_, _, _, _)
Entries(lines, vs, indent, max_name) ==
    IF vs = <<>> THEN lines = <<>>
    ELSE LET var == Head(vs)
             d == IF var.default # NoDefault THEN 1 ELSE 0
             e == IF var.should_echo = True THEN 1 ELSE 0
         IN  /\ Len(lines) >= 1 + d + e
             /\ FirstLine(lines[1], var, indent, max_name)
             /\ d = 1 => lines[2] = Line("      default: %r", <<var.default>>)
             /\ e = 1 => lines[2 + d].fmt = "      should_echo: %s"
             /\ Entries(SubSeq(lines, 2 + d + e, Len(lines)), Tail(vs),
                        indent, max_name)

\* C14: print_vars over a non-empty sequence prints the entries in the order
\* of the sequence, one for each descriptor: a first line with the name,
\* after the requested indentation and padded to the longest name, and the
\* description (the name alone when there is no description), then a
\* default line exactly when the default is not NoDefault, then an echo
\* line exactly when should_echo is true.
C14_PrintEntries ==
    (last.op = "print_vars" /\ Listed # <<>>) =>
        /\ last.outcome.kind = "return"
        /\ Len(last.stdout) >= 1
        /\ Entries(SubSeq(last.stdout, 1, Len(last.stdout) - 1), Listed, Indent,
                   MaxOf({Len(Listed[k].name.s) : k \in 1..Len(Listed)}))


----------------------------------------------------------------------------
=============================================================================
